---- MODULE Spec2Model ----
(***************************************************************************)
(* Booking lifecycle and payment reconciliation of alx_travel_app:         *)
(* listings/views.py (ListingViewSet.book, BookingViewSet, PaymentViewSet), *)
(* listings/serializers.py (BookingSerializer) and listings/models.py.      *)
(*                                                                         *)
(* Spec, SpecBook, SpecPay and SpecCrud run the request handlers one at a   *)
(* time (each action is a whole handler); SpecPaid adds the delivery of     *)
(* the verification callback as a fairness condition.  SpecConc runs book   *)
(* requests whose database reads and writes interleave, SpecRace booking    *)
(* updates and status actions against each other and against verify.       *)
(* SpecGw runs initiate and verify in the steps around their gateway call.  *)
(***************************************************************************)
EXTENDS Integers, Sequences, FiniteSets, TLC

VARIABLES
    bookings,    \* table Booking: booking_id (index) -> row
    payments,    \* table Payment: trnx_id (index) -> row
    dispatched,  \* the booking ids passed to send_booking_confirmation_email.delay
    last,        \* the last request served: its HTTP status code and the
                 \* answer of the gateway call it made
    collation,   \* text comparison of the database: case-sensitive "cs"
                 \* (PostgreSQL, SQLite) or case-insensitive "ci" (MySQL default)
    req          \* SpecConc, SpecGw, SpecRace: the request each worker serves

vars == <<bookings, payments, dispatched, last, collation, req>>

----------------------------------------------------------------------------
(* Bounds of the model *)

MaxBookings == 2
MaxPayments == 2
MaxDay == 2
MaxDispatch == 2
NumWorkers == 2
MaxBooked == 1
MaxPaid == 1

Days == 0..MaxDay
BookingIds == 1..MaxBookings
TxRefs == 1..MaxPayments
Workers == 1..NumWorkers

----------------------------------------------------------------------------
(* enums.py *)

PENDING == "PENDING"
CONFIRMED == "CONFIRMED"
CANCELED == "CANCELED"
DECLINED == "DECLINED"
BookingStatus == {PENDING, CONFIRMED, CANCELED, DECLINED}

COMPLETED == "COMPLETED"
FAILED == "FAILED"
PaymentStatus == {PENDING, COMPLETED, FAILED}

----------------------------------------------------------------------------
(* Users and listings present in the database *)

\* alice hosts L1, bob hosts L2 and is the user who books, admin is staff:
\* on a booking of L1 bob is the guest only, on a booking of L2 he is guest and
\* host and alice is neither
Users == {"alice", "bob", "admin"}
Guests == {"bob"}
Listings == {"L1", "L2"}
None == "None"

\* Listing.host
host(l) == IF l = "L1" THEN "alice" ELSE "bob"

\* Listing.price_per_night
price_per_night(l) == IF l = "L1" THEN 100 ELSE 150

\* Listing.is_available: the host of L2 has taken it off the market
is_available(l) == l # "L2"

\* Users.is_staff
is_staff(u) == u = "admin"

----------------------------------------------------------------------------
(* HTTP status codes returned by the handlers *)

HTTP_200_OK == 200
HTTP_201_CREATED == 201
HTTP_204_NO_CONTENT == 204
HTTP_400_BAD_REQUEST == 400
HTTP_403_FORBIDDEN == 403
HTTP_404_NOT_FOUND == 404
HTTP_500_INTERNAL_SERVER_ERROR == 500
HTTP_503_SERVICE_UNAVAILABLE == 503

\* the response of a handler that called no gateway endpoint
Served(op, id, code) == [op |-> op, id |-> id, code |-> code, gw |-> "none"]

\* the response of a handler that called a gateway endpoint once and got gw
Called(op, id, code, gw) == [op |-> op, id |-> id, code |-> code, gw |-> gw]

----------------------------------------------------------------------------
(* BookingSerializer *)

\* str.lower() of a stored status, as a case-insensitive collation sees it
Lower(st) ==
    CASE st = PENDING -> "pending"
      [] st = CONFIRMED -> "confirmed"
      [] st = CANCELED -> "canceled"
      [] st = DECLINED -> "declined"

\* status__in=[...] evaluated by the database: exact match under a
\* case-sensitive collation, match up to case under a case-insensitive one
status__in(st, lits) ==
    IF collation = "ci" THEN Lower(st) \in lits ELSE st \in lits

\* the overlap query of BookingSerializer.validate
OverlapExists(bs, l, s, e) ==
    \E i \in 1..Len(bs) :
        /\ bs[i].listing = l
        /\ bs[i].start_date < e
        /\ bs[i].end_date > s
        /\ status__in(bs[i].status, {"pending", "confirmed"})

\* validate without the comparison of the two dates
validate_overlap_only(bs, l, s, e) ==
    ~OverlapExists(bs, l, s, e)

\* BookingSerializer.validate: TRUE when the data pass
validate(bs, l, s, e) ==
    /\ ~(e <= s)
    /\ ~OverlapExists(bs, l, s, e)

\* BookingSerializer.create: (end_date - start_date).days
duration_days(s, e) == e - s

\* a booking priced at one night whatever its length
create_one_night(l, g, s, e, st) ==
    [listing |-> l, guest |-> g, start_date |-> s, end_date |-> e,
     total_price |-> price_per_night(l), status |-> st]

\* BookingSerializer.create: the row inserted
create(l, g, s, e, st) ==
    [listing |-> l, guest |-> g, start_date |-> s, end_date |-> e,
     total_price |-> duration_days(s, e) * price_per_night(l), status |-> st]

\* an update that prices the new dates
update_reprices(row, l, s, e) ==
    [row EXCEPT !.listing = IF l = None THEN @ ELSE l,
                !.start_date = s,
                !.end_date = e,
                !.total_price = duration_days(s, e) * price_per_night(row.listing)]

\* ModelSerializer.update + instance.save(): the fields present in the request
\* are set on the loaded row, every other column is written back as loaded
update(row, l, s, e) ==
    [row EXCEPT !.listing = IF l = None THEN @ ELSE l,
                !.start_date = s,
                !.end_date = e]

\* Booking.Meta.constraints: CheckConstraint check_start_date, evaluated by
\* the database on every INSERT and UPDATE of a row
check_start_date(row) == row.end_date > row.start_date

----------------------------------------------------------------------------
(* BookingViewSet.get_queryset / get_object *)

get_queryset(bs, u) ==
    {i \in 1..Len(bs) : is_staff(u) \/ bs[i].guest = u \/ host(bs[i].listing) = u}

----------------------------------------------------------------------------
(* The rows of the tables *)

\* models.Booking (booking_id is the index of the row in bookings)
Booking ==
    [listing : Listings, guest : Users, start_date : Days, end_date : Days,
     total_price : Nat, status : BookingStatus]

\* models.Payment (trnx_id is the index of the row in payments)
Payment ==
    [booking : BookingIds, amount : Nat, status : PaymentStatus]

TypeOK ==
    /\ bookings \in Seq(Booking) /\ Len(bookings) <= MaxBookings
    /\ payments \in Seq(Payment) /\ Len(payments) <= MaxPayments
    /\ dispatched \in Seq(BookingIds) /\ Len(dispatched) <= MaxDispatch
    /\ collation \in {"cs", "ci"}

----------------------------------------------------------------------------
(* Spec: every handler runs from its first query to its response *)

Init ==
    /\ bookings = <<>>
    /\ payments = <<>>
    /\ dispatched = <<>>
    /\ last = Served("none", 0, 0)
    /\ collation \in {"cs", "ci"}
    /\ req = <<>>

\* ListingViewSet.book: POST /listings/{l}/book/ by user u; a ValidationError
\* of validate or of create (duration_days <= 0) is answered with 400
book(u, l, s, e) ==
    /\ IF validate(bookings, l, s, e) /\ ~(duration_days(s, e) <= 0)
       THEN /\ Len(bookings) < MaxBookings
            /\ bookings' = Append(bookings, create(l, u, s, e, PENDING))
            /\ last' = Served("book", Len(bookings) + 1, HTTP_201_CREATED)
       ELSE /\ bookings' = bookings
            /\ last' = Served("book", 0, HTTP_400_BAD_REQUEST)
    /\ UNCHANGED <<payments, dispatched, collation, req>>

\* BookingViewSet.update / partial_update: PUT or PATCH /bookings/{b}/ by user u;
\* l = None is a PATCH that carries no listing. An UPDATE the database
\* refuses (IntegrityError of check_start_date) ends in a server error.
booking_update(u, b, l, s, e) ==
    /\ IF b \notin get_queryset(bookings, u)
       THEN /\ bookings' = bookings
            /\ last' = Served("update", b, HTTP_404_NOT_FOUND)
       ELSE IF ~validate(bookings, l, s, e)
       THEN /\ bookings' = bookings
            /\ last' = Served("update", b, HTTP_400_BAD_REQUEST)
       ELSE IF ~check_start_date(update(bookings[b], l, s, e))
       THEN /\ bookings' = bookings
            /\ last' = Served("update", b, HTTP_500_INTERNAL_SERVER_ERROR)
       ELSE /\ bookings' = [bookings EXCEPT ![b] = update(@, l, s, e)]
            /\ last' = Served("update", b, HTTP_200_OK)
    /\ UNCHANGED <<payments, dispatched, collation, req>>

\* approve without the check of the listing's host
approve_code_any_actor(bs, u, b) ==
    IF b \notin get_queryset(bs, u) THEN HTTP_404_NOT_FOUND
    ELSE IF bs[b].status # PENDING THEN HTTP_400_BAD_REQUEST
    ELSE HTTP_200_OK

\* the response of BookingViewSet.approve for the row it loaded
approve_code(bs, u, b) ==
    IF b \notin get_queryset(bs, u) THEN HTTP_404_NOT_FOUND
    ELSE IF host(bs[b].listing) # u THEN HTTP_403_FORBIDDEN
    ELSE IF bs[b].status # PENDING THEN HTTP_400_BAD_REQUEST
    ELSE HTTP_200_OK

\* BookingViewSet.approve: POST /bookings/{b}/approve/ by user u
approve(u, b) ==
    /\ bookings' = IF approve_code(bookings, u, b) = HTTP_200_OK
                   THEN [bookings EXCEPT ![b].status = CONFIRMED]
                   ELSE bookings
    /\ last' = Served("approve", b, approve_code(bookings, u, b))
    /\ UNCHANGED <<payments, dispatched, collation, req>>

\* the response of BookingViewSet.decline for the row it loaded
decline_code(bs, u, b) ==
    IF b \notin get_queryset(bs, u) THEN HTTP_404_NOT_FOUND
    ELSE IF host(bs[b].listing) # u THEN HTTP_403_FORBIDDEN
    ELSE IF bs[b].status \notin {PENDING, CONFIRMED} THEN HTTP_400_BAD_REQUEST
    ELSE HTTP_200_OK

\* decline that saves DECLINED on every row it loaded, refused or not
decline_saves_refused(u, b) ==
    /\ bookings' = IF decline_code(bookings, u, b) # HTTP_404_NOT_FOUND
                   THEN [bookings EXCEPT ![b].status = DECLINED]
                   ELSE bookings
    /\ last' = Served("decline", b, decline_code(bookings, u, b))
    /\ UNCHANGED <<payments, dispatched, collation, req>>

\* BookingViewSet.decline: POST /bookings/{b}/decline/ by user u
decline(u, b) ==
    /\ bookings' = IF decline_code(bookings, u, b) = HTTP_200_OK
                   THEN [bookings EXCEPT ![b].status = DECLINED]
                   ELSE bookings
    /\ last' = Served("decline", b, decline_code(bookings, u, b))
    /\ UNCHANGED <<payments, dispatched, collation, req>>

\* cancel that refuses only CANCELED and DECLINED
cancel_code_from_confirmed(bs, u, b) ==
    IF b \notin get_queryset(bs, u) THEN HTTP_404_NOT_FOUND
    ELSE IF bs[b].guest # u /\ host(bs[b].listing) # u THEN HTTP_403_FORBIDDEN
    ELSE IF bs[b].status \in {CANCELED, DECLINED} THEN HTTP_400_BAD_REQUEST
    ELSE HTTP_200_OK

\* the response of BookingViewSet.cancel for the row it loaded
cancel_code(bs, u, b) ==
    IF b \notin get_queryset(bs, u) THEN HTTP_404_NOT_FOUND
    ELSE IF bs[b].guest # u /\ host(bs[b].listing) # u THEN HTTP_403_FORBIDDEN
    ELSE IF bs[b].status \in {CANCELED, CONFIRMED, DECLINED} THEN HTTP_400_BAD_REQUEST
    ELSE HTTP_200_OK

\* BookingViewSet.cancel: POST /bookings/{b}/cancel/ by user u
cancel(u, b) ==
    /\ bookings' = IF cancel_code(bookings, u, b) = HTTP_200_OK
                   THEN [bookings EXCEPT ![b].status = CANCELED]
                   ELSE bookings
    /\ last' = Served("cancel", b, cancel_code(bookings, u, b))
    /\ UNCHANGED <<payments, dispatched, collation, req>>

\* a payment of one night's price
new_payment_one_night(bs, b) ==
    [booking |-> b, amount |-> price_per_night(bs[b].listing), status |-> PENDING]

\* Payment.objects.create(booking, amount=booking.total_price, status=PENDING, trnx_id)
new_payment(bs, b) ==
    [booking |-> b, amount |-> bs[b].total_price, status |-> PENDING]

\* the payload of the initialize request: "amount" is str(booking.total_price),
\* the exact numeral of the Decimal
payload(bs, b) ==
    [amount |-> bs[b].total_price, booking |-> b]

\* the answers the gateway can give to transaction/initialize:
\*   "success"   status == 'success' with a checkout_url
\*   "failed"    a JSON body whose status is not 'success'
\*   "error"     requests.exceptions.RequestException (no answer, HTTP error status)
\*   "malformed" status == 'success' without the data object
InitializeAnswers == {"success", "failed", "error", "malformed"}

\* the response of PaymentViewSet.initiate once the payment row exists
initiate_code(gw) ==
    CASE gw = "success" -> HTTP_201_CREATED
      [] gw = "error" -> HTTP_503_SERVICE_UNAVAILABLE
      [] OTHER -> HTTP_500_INTERNAL_SERVER_ERROR

\* initiate that takes the gateway's success for the payment's
initiate_status_success_completed(gw) ==
    IF gw \in {"failed", "error"} THEN FAILED
    ELSE IF gw = "success" THEN COMPLETED
    ELSE PENDING

\* initiate that leaves the row as created on a transport error
initiate_status_error_pending(gw) ==
    IF gw = "failed" THEN FAILED ELSE PENDING

\* the status PaymentViewSet.initiate leaves on its payment row
initiate_status(gw) ==
    IF gw \in {"failed", "error"} THEN FAILED ELSE PENDING

\* initiate without the check of the booking's status
initiate_refused_unknown_only(bs, b) ==
    IF b = 0 THEN HTTP_400_BAD_REQUEST
    ELSE IF b \notin 1..Len(bs) THEN HTTP_404_NOT_FOUND
    ELSE 0

\* PaymentViewSet.initiate before transaction.atomic(): the status code of the
\* early return, 0 when the request goes on to create a payment
\* (b = 0: no booking_id in the request)
initiate_refused(bs, b) ==
    IF b = 0 THEN HTTP_400_BAD_REQUEST
    ELSE IF b \notin 1..Len(bs) THEN HTTP_404_NOT_FOUND
    ELSE IF bs[b].status # PENDING THEN HTTP_400_BAD_REQUEST
    ELSE 0

\* PaymentViewSet.initiate: POST /payments/initiate/ with booking_id = b.
\* tx_ref carries uuid4().hex[:8]; it is taken to be fresh, so the new row
\* gets the next index of payments.
initiate(b, gw) ==
    /\ IF initiate_refused(bookings, b) # 0
       THEN /\ payments' = payments
            /\ last' = Served("initiate", b, initiate_refused(bookings, b))
       ELSE /\ Len(payments) < MaxPayments
            /\ payments' = Append(payments,
                   [new_payment(bookings, b) EXCEPT !.status = initiate_status(gw)])
            /\ last' = Called("initiate", b, initiate_code(gw), gw)
    /\ UNCHANGED <<bookings, dispatched, collation, req>>

\* the answers the gateway can give to transaction/verify/{tx_ref}:
\*   "success"  data.status == 'success'
\*   "failed"   any other data.status
\*   "error"    requests.exceptions.RequestException
VerifyAnswers == {"success", "failed", "error"}

\* the branch of PaymentViewSet.verify taken on a verified "success":
\* the rows written inside transaction.atomic()
verify_success(ps, bs, t) ==
    [payments |-> [ps EXCEPT ![t].status = COMPLETED],
     bookings |-> [bs EXCEPT ![ps[t].booking].status = CONFIRMED]]

\* a failed verification that also declines the booking
verify_failed_declines(ps, bs, t) ==
    [payments |-> [ps EXCEPT ![t].status = FAILED],
     bookings |-> [bs EXCEPT ![ps[t].booking].status = DECLINED]]

\* a failed verification that saves nothing
verify_failed_saves_nothing(ps, bs, t) ==
    [payments |-> ps, bookings |-> bs]

\* the branch of PaymentViewSet.verify taken on any other verified status
verify_failed(ps, bs, t) ==
    [payments |-> [ps EXCEPT ![t].status = FAILED],
     bookings |-> bs]

\* verify taking a transport error for a verified failure
verify_code_error_as_failure(ps, t, gw) ==
    IF t \notin 1..Len(ps) THEN HTTP_404_NOT_FOUND
    ELSE IF gw = "success" THEN HTTP_200_OK
    ELSE HTTP_400_BAD_REQUEST

\* the status code PaymentViewSet.verify answers with: the gateway is called
\* first, the payment is looked up after it
verify_code(ps, t, gw) ==
    IF gw = "error" THEN HTTP_503_SERVICE_UNAVAILABLE
    ELSE IF t \notin 1..Len(ps) THEN HTTP_404_NOT_FOUND
    ELSE IF gw = "success" THEN HTTP_200_OK
    ELSE HTTP_400_BAD_REQUEST

\* PaymentViewSet.verify: GET /payments/verify/{t}/, the broker accepting the
\* task of send_booking_confirmation_email.delay
verify(t, gw) ==
    /\ last' = Called("verify", t, verify_code(payments, t, gw), gw)
    /\ IF verify_code(payments, t, gw) = HTTP_200_OK
       THEN /\ Len(dispatched) < MaxDispatch
            /\ payments' = verify_success(payments, bookings, t).payments
            /\ bookings' = verify_success(payments, bookings, t).bookings
            /\ dispatched' = Append(dispatched, payments[t].booking)
       ELSE IF verify_code(payments, t, gw) = HTTP_400_BAD_REQUEST
       THEN /\ payments' = verify_failed(payments, bookings, t).payments
            /\ bookings' = verify_failed(payments, bookings, t).bookings
            /\ dispatched' = dispatched
       ELSE UNCHANGED <<bookings, payments, dispatched>>
    /\ UNCHANGED <<collation, req>>

\* PaymentViewSet.verify: GET /payments/verify/{t}/ with a verified "success",
\* send_booking_confirmation_email.delay raising (the broker cannot be
\* reached): nothing catches the exception inside transaction.atomic(), so
\* the two saves are rolled back and the request ends in a server error
verify_delay_raises(t) ==
    /\ verify_code(payments, t, "success") = HTTP_200_OK
    /\ last' = Called("verify", t, HTTP_500_INTERNAL_SERVER_ERROR, "success")
    /\ UNCHANGED <<bookings, payments, dispatched, collation, req>>

----------------------------------------------------------------------------
(* The endpoints the two ModelViewSets inherit *)

\* seq without its i-th row
Remove(seq, i) == SubSeq(seq, 1, i - 1) \o SubSeq(seq, i + 1, Len(seq))

\* Payment.booking on_delete=CASCADE: the payments left when booking b is
\* deleted; a booking is named by its position, so the references to the
\* bookings behind b move up with them
cascade(ps, b) ==
    LET kept == SelectSeq(ps, LAMBDA p : p.booking # b)
    IN  [t \in 1..Len(kept) |->
            [kept[t] EXCEPT !.booking = IF @ > b THEN @ - 1 ELSE @]]

\* BookingViewSet.destroy (DestroyModelMixin): DELETE /bookings/{b}/ by user u
destroy(u, b) ==
    /\ IF b \notin get_queryset(bookings, u)
       THEN /\ UNCHANGED <<bookings, payments>>
            /\ last' = Served("destroy", b, HTTP_404_NOT_FOUND)
       ELSE /\ bookings' = Remove(bookings, b)
            /\ payments' = cascade(payments, b)
            /\ last' = Served("destroy", b, HTTP_204_NO_CONTENT)
    /\ UNCHANGED <<dispatched, collation, req>>

\* a validate that finds the booking by its primary key
payment_validate_by_pk(bs, b, amount) ==
    IF amount <= 0 THEN "ValidationError" ELSE "valid"

\* PaymentSerializer.validate: Booking.objects.get(id=...) names a field the
\* model does not have (its primary key is booking_id), so the query raises
\* FieldError before any row is looked up
payment_validate(bs, b, amount) == "FieldError"

\* PaymentSerializer.create: the rows written
payment_serializer_create(ps, bs, b, amount) ==
    [payments |-> Append(ps, [booking |-> b, amount |-> amount, status |-> COMPLETED]),
     bookings |-> [bs EXCEPT ![b].status = CONFIRMED]]

\* PaymentViewSet.create (CreateModelMixin): POST /payments/ with booking = b
\* and amount; the field booking is refused when b is no stored booking
payment_create(b, amount) ==
    /\ IF b \notin 1..Len(bookings)
       THEN /\ UNCHANGED <<bookings, payments>>
            /\ last' = Served("payment_create", b, HTTP_400_BAD_REQUEST)
       ELSE IF payment_validate(bookings, b, amount) = "FieldError"
       THEN /\ UNCHANGED <<bookings, payments>>
            /\ last' = Served("payment_create", b, HTTP_500_INTERNAL_SERVER_ERROR)
       ELSE IF payment_validate(bookings, b, amount) = "ValidationError"
       THEN /\ UNCHANGED <<bookings, payments>>
            /\ last' = Served("payment_create", b, HTTP_400_BAD_REQUEST)
       ELSE /\ Len(payments) < MaxPayments
            /\ payments' = payment_serializer_create(payments, bookings, b, amount).payments
            /\ bookings' = payment_serializer_create(payments, bookings, b, amount).bookings
            /\ last' = Served("payment_create", b, HTTP_201_CREATED)
    /\ UNCHANGED <<dispatched, collation, req>>

----------------------------------------------------------------------------
(* Spec: the booking lifecycle from an empty database; the payment          *)
(* endpoints are not called                                                 *)

\* the date ranges the clients send: every valid range of Days, one range
\* of no night and one reversed range
DatesSent ==
    {d \in Days \X Days : d[1] < d[2]} \cup {<<0, 0>>, <<1, 0>>}

\* the requests the clients send: a PUT carries the listing the booking is on,
\* a PATCH may carry none
ListingsSent(b) ==
    {None} \cup {bookings[i].listing : i \in {b} \cap (1..Len(bookings))}

Next ==
    \/ \E u \in Guests, l \in Listings, d \in DatesSent : book(u, l, d[1], d[2])
    \/ \E u \in Users, b \in BookingIds, d \in DatesSent :
          \E l \in ListingsSent(b) : booking_update(u, b, l, d[1], d[2])
    \/ \E u \in Users, b \in BookingIds : approve(u, b)
    \/ \E u \in Users, b \in BookingIds : decline(u, b)
    \/ \E u \in Users, b \in BookingIds : cancel(u, b)

Spec == Init /\ [][Next]_vars

\* SpecBook: the two handlers that write the dates and the price of a
\* booking, from an empty database; a request that stores a row is sent while
\* fewer than MaxBooked rows are stored
NextBook ==
    \/ \E u \in Guests, l \in Listings, d \in DatesSent :
          /\ validate(bookings, l, d[1], d[2]) => Len(bookings) < MaxBooked
          /\ book(u, l, d[1], d[2])
    \/ \E u \in Users, b \in BookingIds, d \in DatesSent :
          \E l \in ListingsSent(b) : booking_update(u, b, l, d[1], d[2])

SpecBook == Init /\ [][NextBook]_vars

----------------------------------------------------------------------------
(* SpecPay: payment reconciliation of one stored booking; starts in the     *)
(* state a first book request leaves                                        *)

InitPay ==
    /\ \E l \in Listings, e \in 1..MaxDay :
          bookings = <<create(l, "bob", 0, e, PENDING)>>
    /\ payments = <<>>
    /\ dispatched = <<>>
    /\ last = Served("book", 1, HTTP_201_CREATED)
    /\ collation \in {"cs", "ci"}
    /\ req = <<>>

NextPay ==
    \/ \E u \in Users, b \in BookingIds : approve(u, b)
    \/ \E u \in Users, b \in BookingIds : decline(u, b)
    \/ \E u \in Users, b \in BookingIds : cancel(u, b)
    \/ \E b \in 0..MaxBookings, gw \in InitializeAnswers : initiate(b, gw)
    \/ \E t \in TxRefs, gw \in VerifyAnswers : verify(t, gw)
    \/ \E t \in TxRefs : verify_delay_raises(t)

SpecPay == InitPay /\ [][NextPay]_vars

\* the answers of the gateway to transaction/verify that carry a verified
\* status: every answer but the RequestException
VerifiedAnswers == VerifyAnswers \ {"error"}

\* the guest's side of a payment: the payment is initiated, the gateway
\* calls back, the booking may be canceled in between
NextPaid ==
    \/ \E u \in Users, b \in BookingIds : cancel(u, b)
    \/ \E b \in 0..MaxBookings, gw \in InitializeAnswers : initiate(b, gw)
    \/ \E t \in TxRefs, gw \in VerifyAnswers : verify(t, gw)
    \/ \E t \in TxRefs : verify_delay_raises(t)

\* SpecPaid: for every transaction reference, the callback
\* GET /payments/verify/{t}/ is eventually delivered, answered by the gateway
\* with a verified status and, on success, with the broker accepting the task
SpecPaid ==
    /\ InitPay
    /\ [][NextPaid]_vars
    /\ \A t \in TxRefs : WF_vars(\E gw \in VerifiedAnswers : verify(t, gw))

----------------------------------------------------------------------------
(* SpecCrud: every endpoint that reaches one stored booking and its          *)
(* payments, the requests served one at a time; an initiate that creates a  *)
(* payment is sent while fewer than MaxPaid payments are stored             *)

\* the state a first book request leaves: one night of L1, booked by bob
InitCrud ==
    /\ bookings = <<create("L1", "bob", 0, 1, PENDING)>>
    /\ payments = <<>>
    /\ dispatched = <<>>
    /\ last = Served("book", 1, HTTP_201_CREATED)
    /\ collation \in {"cs", "ci"}
    /\ req = <<>>

\* the amounts a client sends to POST /payments/
AmountsSent == {0, 100}

NextCrud ==
    \/ \E u \in Users, b \in BookingIds, d \in DatesSent :
          \E l \in ListingsSent(b) : booking_update(u, b, l, d[1], d[2])
    \/ \E u \in Users, b \in BookingIds : approve(u, b)
    \/ \E u \in Users, b \in BookingIds : decline(u, b)
    \/ \E u \in Users, b \in BookingIds : cancel(u, b)
    \/ \E u \in Users, b \in BookingIds : destroy(u, b)
    \/ \E b \in 0..MaxBookings, gw \in InitializeAnswers :
          /\ initiate_refused(bookings, b) = 0 => Len(payments) < MaxPaid
          /\ initiate(b, gw)
    \/ \E t \in TxRefs, gw \in VerifyAnswers : verify(t, gw)
    \/ \E b \in BookingIds, amount \in AmountsSent : payment_create(b, amount)

SpecCrud == InitCrud /\ [][NextCrud]_vars

----------------------------------------------------------------------------
(* SpecConc: requests served by different workers at the same time; a       *)
(* handler is a sequence of database queries, and the queries of two        *)
(* handlers interleave (no transaction or lock spans the overlap query and  *)
(* the insert of book)                                                      *)

idle == [pc |-> "idle", op |-> "none", code |-> 0, data |-> <<>>]

InitConc ==
    /\ bookings = <<>>
    /\ payments = <<>>
    /\ dispatched = <<>>
    /\ last = Served("none", 0, 0)
    /\ collation \in {"cs", "ci"}
    /\ req = [w \in Workers |-> idle]

\* ListingViewSet.book up to serializer.is_valid(): the overlap query has run
book_is_valid(w, u, l, s, e) ==
    /\ req[w].pc = "idle"
    /\ req' = [req EXCEPT ![w] =
          [pc |-> IF validate(bookings, l, s, e) THEN "save" ELSE "done",
           op |-> "book",
           code |-> IF validate(bookings, l, s, e) THEN 0 ELSE HTTP_400_BAD_REQUEST,
           data |-> [guest |-> u, listing |-> l, start_date |-> s, end_date |-> e]]]
    /\ UNCHANGED <<bookings, payments, dispatched, last, collation>>

\* ListingViewSet.book from serializer.save(): the INSERT and the response
book_save(w) ==
    /\ req[w].pc = "save"
    /\ req[w].op = "book"
    /\ Len(bookings) < MaxBookings
    /\ bookings' = Append(bookings,
          create(req[w].data.listing, req[w].data.guest,
                 req[w].data.start_date, req[w].data.end_date, PENDING))
    /\ req' = [req EXCEPT ![w].pc = "done", ![w].code = HTTP_201_CREATED]
    /\ UNCHANGED <<payments, dispatched, last, collation>>

NextConc ==
    \/ \E w \in Workers, u \in Guests, l \in Listings, d \in DatesSent :
          book_is_valid(w, u, l, d[1], d[2])
    \/ \E w \in Workers : book_save(w)

SpecConc == InitConc /\ [][NextConc]_vars

----------------------------------------------------------------------------
(* SpecGw: initiate and verify served by workers, each handler in the steps  *)
(* around its gateway call: the request is sent, the gateway answers it or  *)
(* never does, the handler goes on from the answer. requests.post and       *)
(* requests.get are called without timeout=, so a handler that waits has no  *)
(* step of its own. Starts in the state a first book request leaves.        *)

InitGw ==
    /\ \E l \in Listings, e \in 1..MaxDay :
          bookings = <<create(l, "bob", 0, e, PENDING)>>
    /\ payments = <<>>
    /\ dispatched = <<>>
    /\ last = Served("book", 1, HTTP_201_CREATED)
    /\ collation \in {"cs", "ci"}
    /\ req = [w \in Workers |-> idle]

\* the workers inside transaction.atomic() of initiate: each holds a payment
\* row that is inserted and not committed
InAtomic == {w \in Workers : req[w].op = "initiate" /\ req[w].pc \in {"gateway", "answered"}}

\* PaymentViewSet.initiate up to requests.post: the early returns; then
\* transaction.atomic() is entered, the payment row is inserted inside the
\* transaction and the initialize request is sent
initiate_post(w, b) ==
    /\ req[w].pc = "idle"
    /\ IF initiate_refused(bookings, b) # 0
       THEN req' = [req EXCEPT ![w] =
               [pc |-> "done", op |-> "initiate",
                code |-> initiate_refused(bookings, b),
                data |-> [id |-> b, atomic |-> FALSE, row |-> <<>>, gw |-> "none"]]]
       ELSE /\ Len(payments) + Cardinality(InAtomic) < MaxPayments
            /\ req' = [req EXCEPT ![w] =
                  [pc |-> "gateway", op |-> "initiate", code |-> 0,
                   data |-> [id |-> b, atomic |-> TRUE,
                             row |-> <<new_payment(bookings, b)>>, gw |-> "none"]]]
    /\ UNCHANGED <<bookings, payments, dispatched, last, collation>>

\* PaymentViewSet.verify up to requests.get: the verify request is sent
\* before any query
verify_get(w, t) ==
    /\ req[w].pc = "idle"
    /\ req' = [req EXCEPT ![w] =
          [pc |-> "gateway", op |-> "verify", code |-> 0,
           data |-> [id |-> t, atomic |-> FALSE, row |-> <<>>, gw |-> "none"]]]
    /\ UNCHANGED <<bookings, payments, dispatched, last, collation>>

\* requests.post / requests.get returns or raises: the gateway has answered
\* the worker that waits for it
gateway_answers(w, gw) ==
    /\ req[w].pc = "gateway"
    /\ gw \in IF req[w].op = "initiate" THEN InitializeAnswers ELSE VerifyAnswers
    /\ req' = [req EXCEPT ![w].pc = "answered", ![w].data.gw = gw]
    /\ UNCHANGED <<bookings, payments, dispatched, last, collation>>

\* PaymentViewSet.initiate from the answer: the status is saved, the return
\* leaves transaction.atomic() (COMMIT) and the response is sent
initiate_return(w) ==
    /\ req[w].pc = "answered"
    /\ req[w].op = "initiate"
    /\ payments' = Append(payments,
          [req[w].data.row[1] EXCEPT !.status = initiate_status(req[w].data.gw)])
    /\ req' = [req EXCEPT ![w].pc = "done",
                          ![w].code = initiate_code(req[w].data.gw),
                          ![w].data.atomic = FALSE,
                          ![w].data.row = <<>>]
    /\ UNCHANGED <<bookings, dispatched, last, collation>>

\* PaymentViewSet.verify from the answer: the payment is looked up and the
\* rows are written, the broker accepting the task
verify_return(w) ==
    /\ req[w].pc = "answered"
    /\ req[w].op = "verify"
    /\ req' = [req EXCEPT ![w].pc = "done",
                          ![w].code = verify_code(payments, req[w].data.id, req[w].data.gw)]
    /\ IF verify_code(payments, req[w].data.id, req[w].data.gw) = HTTP_200_OK
       THEN /\ Len(dispatched) < MaxDispatch
            /\ payments' = verify_success(payments, bookings, req[w].data.id).payments
            /\ bookings' = verify_success(payments, bookings, req[w].data.id).bookings
            /\ dispatched' = Append(dispatched, payments[req[w].data.id].booking)
       ELSE IF verify_code(payments, req[w].data.id, req[w].data.gw) = HTTP_400_BAD_REQUEST
       THEN /\ payments' = verify_failed(payments, bookings, req[w].data.id).payments
            /\ bookings' = verify_failed(payments, bookings, req[w].data.id).bookings
            /\ dispatched' = dispatched
       ELSE UNCHANGED <<bookings, payments, dispatched>>
    /\ UNCHANGED <<last, collation>>

NextGw ==
    \/ \E w \in Workers, b \in 0..MaxBookings : initiate_post(w, b)
    \/ \E w \in Workers, t \in TxRefs : verify_get(w, t)
    \/ \E w \in Workers, gw \in InitializeAnswers \cup VerifyAnswers :
          gateway_answers(w, gw)
    \/ \E w \in Workers : initiate_return(w)
    \/ \E w \in Workers : verify_return(w)

\* a worker runs its handler on from an answer; nothing makes the gateway
\* answer
SpecGw ==
    /\ InitGw
    /\ [][NextGw]_vars
    /\ \A w \in Workers :
          WF_vars(initiate_return(w)) /\ WF_vars(verify_return(w))

----------------------------------------------------------------------------
(* SpecRace: a booking update or status action served by a worker in two   *)
(* steps, the row loaded and checked, then saved, while other requests are  *)
(* served in between. Starts in the state a book and a successful initiate  *)
(* leave.                                                                   *)

InitRace ==
    /\ bookings = <<create("L1", "bob", 0, 1, PENDING)>>
    /\ payments = <<new_payment(<<create("L1", "bob", 0, 1, PENDING)>>, 1)>>
    /\ dispatched = <<>>
    /\ last = Called("initiate", 1, HTTP_201_CREATED, "success")
    /\ collation \in {"cs", "ci"}
    /\ req = [w \in Workers |-> idle]

\* BookingViewSet.update up to serializer.is_valid(): get_object has loaded
\* the row, validate has run its overlap query, the fields of the request
\* are about to be set on the loaded instance
update_is_valid(w, u, b, l, s, e) ==
    /\ req[w].pc = "idle"
    /\ req' = [req EXCEPT ![w] =
          IF b \notin get_queryset(bookings, u)
          THEN [pc |-> "done", op |-> "update", code |-> HTTP_404_NOT_FOUND,
                data |-> [id |-> b, row |-> <<>>]]
          ELSE IF ~validate(bookings, l, s, e)
          THEN [pc |-> "done", op |-> "update", code |-> HTTP_400_BAD_REQUEST,
                data |-> [id |-> b, row |-> <<>>]]
          ELSE [pc |-> "save", op |-> "update", code |-> 0,
                data |-> [id |-> b, row |-> <<update(bookings[b], l, s, e)>>]]]
    /\ UNCHANGED <<bookings, payments, dispatched, last, collation>>

\* BookingViewSet.update from serializer.save(): instance.save() writes every
\* column of the instance as loaded and changed, and the response is sent
update_save(w) ==
    /\ req[w].pc = "save"
    /\ req[w].op = "update"
    /\ IF check_start_date(req[w].data.row[1])
       THEN /\ bookings' = [bookings EXCEPT ![req[w].data.id] = req[w].data.row[1]]
            /\ req' = [req EXCEPT ![w].pc = "done", ![w].code = HTTP_200_OK]
       ELSE /\ bookings' = bookings
            /\ req' = [req EXCEPT ![w].pc = "done",
                                  ![w].code = HTTP_500_INTERNAL_SERVER_ERROR]
    /\ UNCHANGED <<payments, dispatched, last, collation>>

\* a status action up to its status check: get_object has loaded the row, the
\* actor and the loaded status have been checked, nothing is written yet
get_object(w, op, b, code) ==
    /\ req[w].pc = "idle"
    /\ req' = [req EXCEPT ![w] =
          IF code = HTTP_200_OK
          THEN [pc |-> "save", op |-> op, code |-> 0,
                data |-> [id |-> b, row |-> <<bookings[b]>>]]
          ELSE [pc |-> "done", op |-> op, code |-> code,
                data |-> [id |-> b, row |-> <<>>]]]
    /\ UNCHANGED <<bookings, payments, dispatched, last, collation>>

\* a status action from its assignment: booking.status = st; booking.save()
\* writes every column of the instance as loaded, and 200 is answered
save(w, op, st) ==
    /\ req[w].pc = "save"
    /\ req[w].op = op
    /\ bookings' = [bookings EXCEPT ![req[w].data.id] =
                       [req[w].data.row[1] EXCEPT !.status = st]]
    /\ req' = [req EXCEPT ![w].pc = "done", ![w].code = HTTP_200_OK]
    /\ UNCHANGED <<payments, dispatched, last, collation>>

\* BookingViewSet.approve by user u, up to the status check
approve_get_object(w, u, b) == get_object(w, "approve", b, approve_code(bookings, u, b))

\* BookingViewSet.approve from booking.status = CONFIRMED
approve_save(w) == save(w, "approve", CONFIRMED)

\* BookingViewSet.decline by user u, up to the status check
decline_get_object(w, u, b) == get_object(w, "decline", b, decline_code(bookings, u, b))

\* BookingViewSet.decline from booking.status = DECLINED
decline_save(w) == save(w, "decline", DECLINED)

\* BookingViewSet.cancel by user u, up to the status check
cancel_get_object(w, u, b) == get_object(w, "cancel", b, cancel_code(bookings, u, b))

\* BookingViewSet.cancel from booking.status = CANCELED
cancel_save(w) == save(w, "cancel", CANCELED)

NextRace ==
    \/ \E w \in Workers, u \in Users, b \in BookingIds, d \in DatesSent :
          \E l \in ListingsSent(b) : update_is_valid(w, u, b, l, d[1], d[2])
    \/ \E w \in Workers : update_save(w)
    \/ \E w \in Workers, u \in Users, b \in BookingIds : approve_get_object(w, u, b)
    \/ \E w \in Workers : approve_save(w)
    \/ \E w \in Workers, u \in Users, b \in BookingIds : decline_get_object(w, u, b)
    \/ \E w \in Workers : decline_save(w)
    \/ \E w \in Workers, u \in Users, b \in BookingIds : cancel_get_object(w, u, b)
    \/ \E w \in Workers : cancel_save(w)
    \/ \E t \in TxRefs, gw \in VerifyAnswers : verify(t, gw)

SpecRace == InitRace /\ [][NextRace]_vars

----------------------------------------------------------------------------
(* Properties *)

Active(st) == st \in {PENDING, CONFIRMED}
Stored(b) == b \in 1..Len(bookings)
Recorded(t) == t \in 1..Len(payments)

\* C1: no two distinct bookings on the same listing, both Pending or
\* Confirmed, have date ranges with A.start < B.end and B.start < A.end.
C1_NoOverlap ==
    \A i \in 1..Len(bookings), j \in 1..Len(bookings) :
        (/\ i # j
         /\ bookings[i].listing = bookings[j].listing
         /\ Active(bookings[i].status)
         /\ Active(bookings[j].status))
        => ~(/\ bookings[i].start_date < bookings[j].end_date
             /\ bookings[j].start_date < bookings[i].end_date)

\* C2: of two concurrent book requests for the same listing with overlapping
\* ranges, exactly one creates a booking and the other is refused with 400.
\* Stated for the database whose overlap query matches the stored statuses
\* (case-insensitive collation), so that a violation is the interleaving's.
C2_OneOfTwoConcurrentBooks ==
    \A v \in Workers, w \in Workers :
        (/\ collation = "ci"
         /\ v # w
         /\ req[v].pc = "done" /\ req[v].op = "book"
         /\ req[w].pc = "done" /\ req[w].op = "book"
         /\ req[v].data.listing = req[w].data.listing
         /\ req[v].data.start_date < req[v].data.end_date
         /\ req[w].data.start_date < req[w].data.end_date
         /\ req[v].data.start_date < req[w].data.end_date
         /\ req[w].data.start_date < req[v].data.end_date)
        => {req[v].code, req[w].code} = {HTTP_201_CREATED, HTTP_400_BAD_REQUEST}

\* C3: a Verify with gateway success for a payment that is already Completed
\* changes no Payment status and no Booking status, and answers 200 as the
\* first one did.
C3_RepeatedVerifyIsNoOp ==
    [][\A t \in TxRefs :
          (Recorded(t) /\ payments[t].status = COMPLETED /\ verify(t, "success"))
          => (/\ payments' = payments
              /\ bookings' = bookings
              /\ last'.code = HTTP_200_OK)]_vars

\* C4: a Verify with gateway success that finds the payment already
\* Completed dispatches no confirmation e-mail task, so the task is dispatched
\* once however often Verify is called for the transaction reference.
C4_DispatchedOnce ==
    [][\A t \in TxRefs :
          (Recorded(t) /\ payments[t].status = COMPLETED /\ verify(t, "success"))
          => dispatched' = dispatched]_vars

\* C5: at most one Payment of a booking is Completed.
C5_OneCompletedPayment ==
    \A b \in BookingIds :
        Cardinality({t \in 1..Len(payments) :
                        payments[t].booking = b /\ payments[t].status = COMPLETED}) <= 1

\* C6: a Completed Payment stays Completed and a Failed Payment stays Failed.
C6_PaymentOutcomeFinal ==
    [][\A t \in 1..Len(payments) :
          (payments[t].status \in {COMPLETED, FAILED})
          => payments'[t].status = payments[t].status]_vars

\* C7: a Declined or Canceled booking never changes status again.
C7_DeclinedCanceledTerminal ==
    [][\A b \in 1..Len(bookings) :
          (bookings[b].status \in {DECLINED, CANCELED})
          => bookings'[b].status = bookings[b].status]_vars

\* C8: a decline by the listing's host sets Declined from Pending only; from
\* Confirmed, Declined or Canceled it answers 400 and changes nothing.
C8_DeclineOnlyFromPending ==
    [][\A u \in Users, b \in BookingIds :
          (Stored(b) /\ host(bookings[b].listing) = u /\ decline(u, b))
          => IF bookings[b].status = PENDING
             THEN bookings'[b].status = DECLINED
             ELSE last'.code = HTTP_400_BAD_REQUEST /\ bookings' = bookings]_vars

\* the cancel guard with the statuses From as the ones cancel is allowed from
CancelGuard(From) ==
    \A u \in Users, b \in BookingIds :
        (Stored(b) /\ cancel(u, b))
        => LET actor == bookings[b].guest = u \/ host(bookings[b].listing) = u
               done == last'.code = HTTP_200_OK /\ bookings'[b].status = CANCELED
           IN  /\ done <=> (actor /\ bookings[b].status \in From)
               /\ ~done => bookings' = bookings
               /\ (actor /\ bookings[b].status \notin From)
                      => last'.code = HTTP_400_BAD_REQUEST

\* C9 as claimed: cancel succeeds exactly when the actor is the guest or the
\* host and the status is Pending or Confirmed; otherwise nothing changes,
\* and from Declined or Canceled the answer is 400.
C9_CancelFromPendingOrConfirmed ==
    [][CancelGuard({PENDING, CONFIRMED})]_vars

\* C9 amended: cancel succeeds, setting Canceled, exactly when the actor is
\* the guest or the host and the status is Pending; from Confirmed, Declined
\* or Canceled it answers 400 and changes nothing.
C9_CancelFromPendingOnly ==
    [][CancelGuard({PENDING})]_vars

\* C9 witness: a cancel has set a booking to Canceled
C9_Canceled ==
    /\ last.op = "cancel"
    /\ last.code = HTTP_200_OK
    /\ bookings[last.id].status = CANCELED

\* C10: approve changes a booking only when the actor is the host of its
\* listing and its status is Pending, and then sets it to Confirmed; an
\* approve by anyone else, or from another status, changes nothing.
C10_ApproveGuard ==
    [][\A u \in Users, b \in BookingIds :
          approve(u, b)
          => IF Stored(b) /\ host(bookings[b].listing) = u /\ bookings[b].status = PENDING
             THEN bookings' = [bookings EXCEPT ![b].status = CONFIRMED]
             ELSE bookings' = bookings]_vars

\* C10 witness: an approve has set a booking to Confirmed
C10_Approved ==
    /\ last.op = "approve"
    /\ last.code = HTTP_200_OK
    /\ bookings[last.id].status = CONFIRMED

\* C11: an approve, decline or cancel that answers 403 (wrong actor) or 400
\* (wrong source status) leaves every booking (status, dates, total_price)
\* and every payment as it was. Every handler sets last to its own response,
\* so the step of such a request is the one whose last' carries it.
C11_RejectedTransitionsNoEffect ==
    [][(/\ last'.op \in {"approve", "decline", "cancel"}
        /\ last'.code \in {HTTP_403_FORBIDDEN, HTTP_400_BAD_REQUEST})
       => (bookings' = bookings /\ payments' = payments)]_vars

\* C11 witness: a decline was refused with 400 while a payment is recorded
C11_DeclineRefused ==
    /\ last.op = "decline"
    /\ last.code = HTTP_400_BAD_REQUEST
    /\ Len(payments) > 0

\* C12: initiate on a stored booking that is not Pending answers 400, creates
\* no payment and calls no gateway; initiate on an unknown booking id answers
\* 404, creates no payment and calls no gateway.
C12_InitiateGuard ==
    [][\A b \in BookingIds, gw \in InitializeAnswers :
          initiate(b, gw)
          => IF ~Stored(b)
             THEN /\ last'.code = HTTP_404_NOT_FOUND
                  /\ payments' = payments
                  /\ last'.gw = "none"
             ELSE bookings[b].status # PENDING
                  => /\ last'.code = HTTP_400_BAD_REQUEST
                     /\ payments' = payments
                     /\ last'.gw = "none"]_vars

\* C12 witness: initiate on a Confirmed booking was refused with 400
C12_InitiateRefused ==
    /\ last.op = "initiate"
    /\ last.code = HTTP_400_BAD_REQUEST
    /\ Stored(last.id)
    /\ bookings[last.id].status = CONFIRMED

\* C13: an initiate whose gateway call fails at transport level leaves its
\* new payment Failed and the booking unchanged (Pending), answering 503; an
\* initiate on the same booking right after it, the gateway answering success,
\* answers 201 and adds one more payment, Pending, the earlier ones kept.
C13_InitiateRetry ==
    [][\A b \in BookingIds :
          /\ (initiate_refused(bookings, b) = 0 /\ initiate(b, "error"))
             => /\ Len(payments') = Len(payments) + 1
                /\ payments'[Len(payments')].booking = b
                /\ payments'[Len(payments')].status = FAILED
                /\ bookings' = bookings
                /\ bookings'[b].status = PENDING
                /\ last'.code = HTTP_503_SERVICE_UNAVAILABLE
          /\ (/\ last = Called("initiate", b, HTTP_503_SERVICE_UNAVAILABLE, "error")
              /\ initiate(b, "success"))
             => /\ last'.code = HTTP_201_CREATED
                /\ payments' = Append(payments, new_payment(bookings, b))
                /\ payments[Len(payments)].status = FAILED
                /\ bookings' = bookings]_vars

\* C13 witness: the retry after a transport failure has added a second
\* payment, Pending, next to the Failed one of the same booking
C13_Retried ==
    /\ last = Called("initiate", 1, HTTP_201_CREATED, "success")
    /\ Len(payments) = 2
    /\ payments[1].status = FAILED
    /\ payments[2].status = PENDING
    /\ payments[1].booking = payments[2].booking
    /\ bookings[1].status = PENDING

\* C14: a verify that finds the payment and gets a non-success status from
\* the gateway sets that payment to Failed and nothing else: no other
\* payment, no booking status, no task dispatched; it answers 400.
C14_VerifyFailureTouchesPaymentOnly ==
    [][\A t \in TxRefs :
          (Recorded(t) /\ verify(t, "failed"))
          => /\ payments' = [payments EXCEPT ![t].status = FAILED]
             /\ bookings' = bookings
             /\ dispatched' = dispatched
             /\ last'.code = HTTP_400_BAD_REQUEST]_vars

\* C14 witness: a verify has failed a payment whose booking is still Pending
C14_VerifyFailed ==
    /\ last.op = "verify"
    /\ last.code = HTTP_400_BAD_REQUEST
    /\ Recorded(last.id)
    /\ payments[last.id].status = FAILED
    /\ bookings[payments[last.id].booking].status = PENDING

\* C15: a verify whose gateway call fails at transport level answers 503, a
\* verify for a reference with no payment answers 404, and both leave every
\* payment and booking unchanged and dispatch no task.
C15_VerifyErrorsMutateNothing ==
    [][\A t \in TxRefs, gw \in VerifyAnswers :
          (verify(t, gw) /\ (gw = "error" \/ ~Recorded(t)))
          => /\ payments' = payments
             /\ bookings' = bookings
             /\ dispatched' = dispatched
             /\ last'.code = IF gw = "error" THEN HTTP_503_SERVICE_UNAVAILABLE
                                             ELSE HTTP_404_NOT_FOUND]_vars

\* C15 witness: a verify of a recorded Pending payment ended in 503
C15_VerifyUnavailable ==
    /\ last.op = "verify"
    /\ last.code = HTTP_503_SERVICE_UNAVAILABLE
    /\ Recorded(last.id)
    /\ payments[last.id].status = PENDING

\* C16: when the gateway answers with a non-success status, initiate and
\* verify both answer 400 and leave the payment of the transaction Failed.
C16_GatewayRejectionIs400 ==
    [][/\ \A b \in BookingIds :
             (initiate_refused(bookings, b) = 0 /\ initiate(b, "failed"))
             => /\ last'.code = HTTP_400_BAD_REQUEST
                /\ payments'[Len(payments')].status = FAILED
       /\ \A t \in TxRefs :
             (Recorded(t) /\ verify(t, "failed"))
             => /\ last'.code = HTTP_400_BAD_REQUEST
                /\ payments'[t].status = FAILED]_vars

\* C17: when dispatching the confirmation task fails during a verify with
\* gateway success, the payment is Completed and the booking Confirmed after
\* the call, and the call answers 200.
C17_NotificationFailureIsolated ==
    [][\A t \in TxRefs :
          verify_delay_raises(t)
          => /\ payments'[t].status = COMPLETED
             /\ bookings'[payments[t].booking].status = CONFIRMED
             /\ last'.code = HTTP_200_OK]_vars

\* a booking that blocks the range [s, e) on listing l
Blocking(bs, l, s, e) ==
    \E i \in 1..Len(bs) :
        /\ bs[i].listing = l
        /\ Active(bs[i].status)
        /\ bs[i].start_date < e
        /\ bs[i].end_date > s

\* C20: for a range [s, e) with s < e, book is refused with 400 if and only
\* if a Pending or Confirmed booking of the listing has start_date < e and
\* end_date > s; touching ranges and Declined or Canceled bookings do not
\* block.
C20_BookRejectsIffBlocked ==
    [][\A u \in Guests, l \in Listings, d \in DatesSent :
          (d[1] < d[2] /\ book(u, l, d[1], d[2]))
          => (last'.code = HTTP_400_BAD_REQUEST
                <=> Blocking(bookings, l, d[1], d[2]))]_vars

\* C18: while initiate waits for the gateway, its transaction is over: the
\* Pending payment row was committed before the initialize request started
\* and the worker holds no open transaction.
C18_CommittedBeforeGatewayCall ==
    \A w \in Workers :
        (req[w].op = "initiate" /\ req[w].pc = "gateway")
        => (~req[w].data.atomic /\ req[w].data.row = <<>>)

\* C19: a worker that waits for the gateway's answer to an initialize or a
\* verify request eventually returns a response, whether or not the gateway
\* ever answers.
C19_GatewayCallsReturn ==
    \A w \in Workers : (req[w].pc = "gateway") ~> (req[w].pc = "done")

\* C21: every stored booking is on a listing whose availability flag is
\* true: book stores nothing for a listing whose flag is false.
C21_AvailableListingsOnly ==
    \A i \in 1..Len(bookings) : is_available(bookings[i].listing)

\* C22: every stored booking has end_date after start_date; a book or a
\* booking update that carries end_date <= start_date (the same day
\* included) is answered with 400 and stores nothing. Every handler sets last
\* to its own response, so a step is looked at as a book or as an update of
\* a booking the actor can load when last' says so.
C22_DateRangeValid ==
    /\ [](\A i \in 1..Len(bookings) : bookings[i].end_date > bookings[i].start_date)
    /\ [][\A d \in {x \in DatesSent : x[2] <= x[1]} :
            /\ last'.op = "book"
               => \A u \in Guests, l \in Listings :
                     book(u, l, d[1], d[2])
                     => (last'.code = HTTP_400_BAD_REQUEST /\ bookings' = bookings)
            /\ (last'.op = "update" /\ last'.code # HTTP_404_NOT_FOUND)
               => \A u \in Users, l \in ListingsSent(last'.id) :
                     booking_update(u, last'.id, l, d[1], d[2])
                     => (last'.code = HTTP_400_BAD_REQUEST /\ bookings' = bookings)]_vars

\* C22 witness: a book for a range of no night or a reversed range was
\* refused on an empty table, where nothing can overlap
C22_BadRangeRefused ==
    /\ last = Served("book", 0, HTTP_400_BAD_REQUEST)
    /\ bookings = <<>>

\* C23: a booking that book has just created carries total_price =
\* price_per_night * (end_date - start_date), the number of days positive.
C23_Pricing ==
    [][(last'.op = "book" /\ last'.code = HTTP_201_CREATED)
       => LET new == bookings'[Len(bookings')]
          IN  /\ Len(bookings') = Len(bookings) + 1
              /\ new.end_date - new.start_date > 0
              /\ new.total_price =
                    price_per_night(new.listing) * (new.end_date - new.start_date)]_vars

\* C23 witness: a booking of two nights at 100 a night was created for 200
C23_TwoNights ==
    /\ last.op = "book"
    /\ last.code = HTTP_201_CREATED
    /\ bookings[last.id].end_date - bookings[last.id].start_date = 2
    /\ bookings[last.id].total_price = 2 * price_per_night("L1")

\* C24: the payment an initiate creates carries the booking's total_price as
\* it is when the initiate runs, and the amount of the initialize request is
\* the same value.
C24_PaymentAmount ==
    [][(last'.op = "initiate" /\ last'.gw # "none")
       => /\ Len(payments') = Len(payments) + 1
          /\ payments'[Len(payments')].booking = last'.id
          /\ payments'[Len(payments')].amount = bookings[last'.id].total_price
          /\ payload(bookings, last'.id).amount = payments'[Len(payments')].amount]_vars

\* C24 witness: an initiate has created a payment of 200 for a two-night
\* booking of L1
C24_Initiated ==
    /\ last.op = "initiate"
    /\ last.gw = "success"
    /\ bookings[1].listing = "L1"
    /\ bookings[1].end_date - bookings[1].start_date = 2
    /\ payments[Len(payments)].amount = 200

\* C25: no step changes the total_price of a stored booking (a deleted
\* booking has none).
C25_TotalPriceImmutable ==
    [][last'.op # "destroy"
       => \A b \in 1..Len(bookings) :
             /\ b \in 1..Len(bookings')
             /\ bookings'[b].total_price = bookings[b].total_price]_vars

\* C25 witness: an update has moved a booking to other dates, its
\* total_price standing as it was
C25_Updated ==
    /\ last = Served("update", 1, HTTP_200_OK)
    /\ bookings[1].total_price # duration_days(bookings[1].start_date, bookings[1].end_date)
                                    * price_per_night(bookings[1].listing)

\* C26: a booking, once stored, is stored in every later state: no step
\* removes a row of bookings.
C26_NeverDeleted ==
    [][Len(bookings') >= Len(bookings)]_vars

C28_FailingInitiateReconciles ==
    [][(/\ last'.op = "initiate"
        /\ last'.gw # "none"
        /\ last'.code # HTTP_201_CREATED)
       => /\ payments'[Len(payments')].status = FAILED
          /\ bookings'[last'.id].status = PENDING]_vars

\* C29: an initiate that passes its guards adds exactly one payment, behind
\* the existing ones, consumes one answer of the initialize endpoint, leaves
\* the new payment Pending when that answer is success, and changes no
\* booking and no payment that existed.
C29_InitiateFrame ==
    [][(last'.op = "initiate" /\ initiate_refused(bookings, last'.id) = 0)
       => /\ Len(payments') = Len(payments) + 1
          /\ SubSeq(payments', 1, Len(payments)) = payments
          /\ payments'[Len(payments')].booking = last'.id
          /\ last'.gw \in InitializeAnswers
          /\ last'.gw = "success"
                => /\ payments'[Len(payments')].status = PENDING
                   /\ last'.code = HTTP_201_CREATED
          /\ bookings' = bookings
          /\ dispatched' = dispatched]_vars

\* C29 witness: a successful initiate has added a Pending payment next to
\* an earlier Pending one, which stands as it was
C29_InitiatedBesideExisting ==
    /\ last = Called("initiate", 1, HTTP_201_CREATED, "success")
    /\ Len(payments) = 2
    /\ payments[1].status = PENDING
    /\ payments[2].status = PENDING

\* C30: in every state, a booking that has a Completed payment is not
\* Pending.
C30_CompletedNotPending ==
    \A t \in 1..Len(payments) :
        payments[t].status = COMPLETED
        => bookings[payments[t].booking].status # PENDING

\* the status actions served in two steps
TransitionOps == {"approve", "decline", "cancel"}

\* worker w has answered 200 to a status action on booking b that it loaded
\* in status PENDING
SucceededFromPending(w, b) ==
    /\ req[w].pc = "done"
    /\ req[w].op \in TransitionOps
    /\ req[w].code = HTTP_200_OK
    /\ req[w].data.id = b
    /\ req[w].data.row[1].status = PENDING

\* C31: of two different status actions (approve, decline, cancel)
\* interleaved on the same booking, each having loaded it in status PENDING,
\* at most one is answered with success
C31_OneOfTwoConcurrentTransitions ==
    \A v \in Workers, w \in Workers, b \in BookingIds :
        (req[v].op # req[w].op /\ SucceededFromPending(v, b))
            => ~SucceededFromPending(w, b)

\* C32: in every state, each booking's total_price is its number of nights
\* (end_date - start_date) times the nightly price of its listing, also after
\* an update of its dates
C32_PriceMatchesDates ==
    \A b \in 1..Len(bookings) :
        bookings[b].total_price =
            duration_days(bookings[b].start_date, bookings[b].end_date)
                * price_per_night(bookings[b].listing)

====
